---- MODULE Spec2Model ----
(***************************************************************************)
(* Model of the memo routes of backend/src/routes/memo.ts: the memo,      *)
(* memo_resource and memo_tag tables, and the create / list / fetch /     *)
(* update / delete handlers with their guards and resource resolution.    *)
(***************************************************************************)
EXTENDS Integers, Sequences, FiniteSets, TLC

VARIABLES memo, memo_resource, memo_tag, clock, last, flight

vars == <<memo, memo_resource, memo_tag, clock, last, flight>>

(* ---------------- bounds ---------------- *)
MaxMemos == 2
MaxClock == 2

(* ---------------- fixed tables of the store ---------------- *)
\* rows of table user (uid, id); users are managed elsewhere
user == { [uid |-> "alice", id |-> 1], [uid |-> "bob", id |-> 2] }

\* rows of table resource (uid as a string of characters, id)
resource == { [uid |-> <<"a">>, id |-> 7], [uid |-> <<"b">>, id |-> 8] }

Null == 0

(* ---------------- request inputs ---------------- *)
Anonymous == [auth |-> FALSE, sub |-> "", role |-> ""]

Principals ==
    {Anonymous} \cup
    [auth : {TRUE}, sub : {"alice", "bob", "ghost"}, role : {"USER", "HOST"}]

\* a structured resource object: its name is absent or a string
Res(n) == [hasName |-> TRUE, name |-> n]
NamelessRes == [hasName |-> FALSE, name |-> <<>>]

ResourceLists ==
    { <<>>,
      << Res(<<"r", "/", "a">>) >>,
      << Res(<<"r", "/", "b">>), Res(<<"x", "/", "r", "/", "a">>) >>,
      << Res(<<"a">>), Res(<<"r", "/", "a">>) >>,
      << Res(<<"r", "/", "z">>), Res(<<"r", "/", "b">>) >>,
      << Res(<<"r", "/", "z">>) >>,
      << NamelessRes, Res(<<"r", "/">>) >> }

IdLists == { <<>>, <<7>>, <<8, 7>> }

\* a list field of a request body: absent, or one of the lists
AbsentList == [has |-> FALSE, list |-> <<>>]
IdListFields == {AbsentList} \cup { [has |-> TRUE, list |-> l] : l \in IdLists }
ResourcesFields == {AbsentList} \cup { [has |-> TRUE, list |-> l] : l \in ResourceLists }

(* ---------------- helpers ---------------- *)
getUserIdFromUid(uid) ==
    IF \E u \in user : u.uid = uid
    THEN (CHOOSE u \in user : u.uid = uid).id
    ELSE Null

\* name.split('/').pop(): the part of the string after its last '/'
RECURSIVE SplitPop(_)
SplitPop(s) ==
    IF s = <<>> THEN <<>>
    ELSE IF s[Len(s)] = "/" THEN <<>>
    ELSE SplitPop(SubSeq(s, 1, Len(s) - 1)) \o << s[Len(s)] >>

\* mutant: a reference that is not found is pushed as a null id
ResolveOne_PushMiss(r) ==
    LET resourceUid == SplitPop(r.name)
        found == { d \in resource : d.uid = resourceUid }
    IN  IF r.hasName /\ resourceUid # <<>>
        THEN IF found # {} THEN << (CHOOSE d \in found : TRUE).id >> ELSE << Null >>
        ELSE <<>>

\* one pass of the resolver loop: what it pushes for one resource object
ResolveOne(r) ==
    LET resourceUid == SplitPop(r.name)
        found == { d \in resource : d.uid = resourceUid }
    IN  IF r.hasName /\ resourceUid # <<>> /\ found # {}
        THEN << (CHOOSE d \in found : TRUE).id >>
        ELSE <<>>

\* the resolver loop: ids of the resources whose uid is found, in input order
RECURSIVE ResolveResources(_)
ResolveResources(rs) ==
    IF rs = <<>> THEN <<>>
    ELSE ResolveOne(Head(rs)) \o ResolveResources(Tail(rs))

(* ---------------- rows and views ---------------- *)
MemoIds == 1..Len(memo)

\* the tags the synchronizer extracts from a text
ExtractTags(content) ==
    IF content = "hi #world" THEN {"world"} ELSE {}

\* tag synchronizer: the memo's tag links become exactly the extracted set
updateMemoTags(tags, memoId, userId, content) ==
    { t \in tags : t[1] # memoId } \cup { <<memoId, n>> : n \in ExtractTags(content) }

\* memo_resource rows of one memo, in storage order
RowsOf(rows, memoId) == SelectSeq(rows, LAMBDA r : r.memo_id = memoId)

ResourceIdsOf(rows, memoId) ==
    LET mine == SelectSeq(rows, LAMBDA r :
                    r.memo_id = memoId /\ \E d \in resource : d.id = r.resource_id)
    IN  [ i \in 1..Len(mine) |-> mine[i].resource_id ]

ResourceName(rid) ==
    <<"r", "/">> \o (CHOOSE d \in resource : d.id = rid).uid

\* the assembled memo view, or no view when the memo row (joined with its
\* owner) is absent
getMemoWithDetails(memos, rows, tags, memoId) ==
    IF memoId \in 1..Len(memos) /\ \E u \in user : u.id = memos[memoId].creator_id
    THEN LET m == memos[memoId]
             ids == ResourceIdsOf(rows, memoId)
         IN  << [ id |-> memoId,
                  uid |-> m.uid,
                  creatorId |-> m.creator_id,
                  content |-> m.content,
                  visibility |-> m.visibility,
                  rowStatus |-> m.row_status,
                  createdTs |-> m.created_ts,
                  updatedTs |-> m.updated_ts,
                  resourceIdList |-> ids,
                  resources |-> [ i \in 1..Len(ids) |-> ResourceName(ids[i]) ],
                  tags |-> { t[2] : t \in { x \in tags : x[1] = memoId } } ] >>
    ELSE <<>>

\* uuidv4(): a uid that no stored memo carries
uuidv4 == CHOOSE u \in 1..(Len(memo) + 1) : \A i \in MemoIds : memo[i].uid # u

(* ---------------- guards ---------------- *)
\* mutant: the HOST role also reads private memos
CanRead_HostReads(m, p) ==
    IF m.visibility = "PRIVATE"
    THEN p.auth /\ (m.creator_id = getUserIdFromUid(p.sub) \/ p.role = "HOST")
    ELSE TRUE

\* mutant: an archived memo is hidden from everyone but its owner
CanRead_ArchivedHidden(m, p) ==
    IF m.visibility = "PRIVATE" \/ m.row_status = "ARCHIVED"
    THEN p.auth /\ m.creator_id = getUserIdFromUid(p.sub)
    ELSE TRUE

\* the access check of the fetch handler
CanRead(m, p) ==
    IF m.visibility = "PRIVATE"
    THEN p.auth /\ m.creator_id = getUserIdFromUid(p.sub)
    ELSE TRUE

\* mutant: any principal whose uid resolves to a user may write
CanWrite_AnyUser(m, p) ==
    getUserIdFromUid(p.sub) # Null \/ p.role = "HOST"

\* the write guard of the update and delete handlers (the principal is present)
CanWrite(m, p) ==
    ~(m.creator_id # getUserIdFromUid(p.sub) /\ p.role # "HOST")

(* ---------------- pieces of the handlers ---------------- *)
\* create: body defaults, then the resources conversion
CreateFinalResourceIdList(b) ==
    LET resourceIdList == IF b.hasIdList THEN b.resourceIdList ELSE <<>>
        resources == IF b.hasResources THEN b.resources ELSE <<>>
    IN  IF Len(resources) > 0 THEN ResolveResources(resources) ELSE resourceIdList

\* mutant: the raw id list is kept in front of the resolved ids
UpdateFinalResourceIdList_Merge(b) ==
    LET resources == IF b.hasResources THEN b.resources ELSE <<>>
        raw == IF b.hasIdList THEN b.resourceIdList ELSE <<>>
    IN  IF Len(resources) > 0
        THEN [given |-> TRUE, list |-> raw \o ResolveResources(resources)]
        ELSE [given |-> b.hasIdList, list |-> raw]

\* update: finalResourceIdList, which may stay undefined (given = FALSE)
UpdateFinalResourceIdList(b) ==
    LET resources == IF b.hasResources THEN b.resources ELSE <<>>
    IN  IF Len(resources) > 0
        THEN [given |-> TRUE, list |-> ResolveResources(resources)]
        ELSE [given |-> b.hasIdList,
              list |-> IF b.hasIdList THEN b.resourceIdList ELSE <<>>]

InsertAssociations(rows, memoId, ids) ==
    rows \o [ i \in 1..Len(ids) |-> [memo_id |-> memoId, resource_id |-> ids[i]] ]

\* mutant: the final list is inserted without deleting the old associations
ReplaceAssociations_Append(rows, memoId, final) ==
    IF final.given
    THEN InsertAssociations(rows, memoId, final.list)
    ELSE rows

\* update: delete the memo's associations and insert the final list, when given
ReplaceAssociations(rows, memoId, final) ==
    IF final.given
    THEN InsertAssociations(SelectSeq(rows, LAMBDA r : r.memo_id # memoId),
                            memoId, final.list)
    ELSE rows

\* mutant: an absent visibility falls back to the default, as in create
UpdateFields_DefaultVisibility(m, b, now) ==
    LET n == (IF b.hasContent THEN 1 ELSE 0) + (IF b.hasVisibility THEN 1 ELSE 0) + 1
    IN  IF n > 1
        THEN [m EXCEPT !.content = IF b.hasContent THEN b.content ELSE @,
                       !.visibility = IF b.hasVisibility THEN b.visibility ELSE "PRIVATE",
                       !.updated_ts = now]
        ELSE m

\* update: the UPDATE statement built from the fields present in the body
UpdateFields(m, b, now) ==
    LET n == (IF b.hasContent THEN 1 ELSE 0) + (IF b.hasVisibility THEN 1 ELSE 0) + 1
    IN  IF n > 1
        THEN [m EXCEPT !.content = IF b.hasContent THEN b.content ELSE @,
                       !.visibility = IF b.hasVisibility THEN b.visibility ELSE @,
                       !.updated_ts = now]
        ELSE m

\* mutant: deleting an archived memo restores it
ArchiveFields_Toggle(m, now) ==
    [m EXCEPT !.row_status = IF @ = "ARCHIVED" THEN "NORMAL" ELSE "ARCHIVED",
              !.updated_ts = now]

\* delete: the soft-delete UPDATE statement
ArchiveFields(m, now) ==
    [m EXCEPT !.row_status = "ARCHIVED", !.updated_ts = now]

NewMemoRow(uid, creatorId, b, now) ==
    [ uid |-> uid,
      creator_id |-> creatorId,
      content |-> b.content,
      visibility |-> IF b.hasVisibility THEN b.visibility ELSE "PRIVATE",
      row_status |-> "NORMAL",
      created_ts |-> now,
      updated_ts |-> now ]

(* ---------------- list filters ---------------- *)
DefaultLimit == 50
DefaultOffset == 0

\* query parameters of a list request; "" and Null stand for an absent one
Filters ==
    [ rowStatus : {"", "ARCHIVED"}, creatorId : {Null, 1, 2},
      visibility : {"", "PRIVATE", "PUBLIC"}, tag : {"", "world"} ]

NoFilter == [rowStatus |-> "", creatorId |-> Null, visibility |-> "", tag |-> ""]

\* mutant: without a rowStatus parameter the list does not filter on status
ListMatches_AnyStatus(m, memoId, f) ==
    /\ (f.rowStatus # "" => m.row_status = f.rowStatus)
    /\ (f.creatorId # Null => m.creator_id = f.creatorId)
    /\ IF f.visibility # ""
       THEN m.visibility = f.visibility
       ELSE (f.creatorId = Null => m.visibility = "PUBLIC")
    /\ (f.tag # "" => <<memoId, f.tag>> \in memo_tag)
    /\ \E u \in user : u.id = m.creator_id

\* mutant: the PUBLIC default applies whether or not creatorId is given
ListMatches_OwnerPublicOnly(m, memoId, f) ==
    /\ m.row_status = (IF f.rowStatus # "" THEN f.rowStatus ELSE "NORMAL")
    /\ (f.creatorId # Null => m.creator_id = f.creatorId)
    /\ m.visibility = (IF f.visibility # "" THEN f.visibility ELSE "PUBLIC")
    /\ (f.tag # "" => <<memoId, f.tag>> \in memo_tag)
    /\ \E u \in user : u.id = m.creator_id

\* the WHERE clause of the list query
ListMatches(m, memoId, f) ==
    /\ m.row_status = (IF f.rowStatus # "" THEN f.rowStatus ELSE "NORMAL")
    /\ (f.creatorId # Null => m.creator_id = f.creatorId)
    /\ IF f.visibility # ""
       THEN m.visibility = f.visibility
       ELSE (f.creatorId = Null => m.visibility = "PUBLIC")
    /\ (f.tag # "" => <<memoId, f.tag>> \in memo_tag)
    /\ \E u \in user : u.id = m.creator_id

\* the orders ORDER BY created_ts DESC allows for the matching rows
ListOrders(f) ==
    LET hit == { i \in MemoIds : ListMatches(memo[i], i, f) }
    IN  { s \in [1..Cardinality(hit) -> hit] :
            /\ \A i, j \in DOMAIN s : i # j => s[i] # s[j]
            /\ \A i, j \in DOMAIN s :
                   i < j => memo[s[i]].created_ts >= memo[s[j]].created_ts }

Page(s) ==
    SubSeq(s, DefaultOffset + 1,
           IF Len(s) < DefaultOffset + DefaultLimit THEN Len(s)
           ELSE DefaultOffset + DefaultLimit)

(* ---------------- the last request and its response ---------------- *)
EmptyBody ==
    [ hasContent |-> FALSE, content |-> "",
      hasVisibility |-> FALSE, visibility |-> "PRIVATE",
      hasIdList |-> FALSE, resourceIdList |-> <<>>,
      hasResources |-> FALSE, resources |-> <<>> ]

NoSync == [called |-> FALSE, memoId |-> 0, userId |-> 0, content |-> "", ok |-> TRUE]

Response(op, p, memoId, b, f, status, views, sync) ==
    [ op |-> op, user |-> p, id |-> memoId, body |-> b, filter |-> f,
      now |-> clock, status |-> status, views |-> views, sync |-> sync ]

\* the requests that can be in progress at the same time
Slots == {1, 2}

\* a request in progress: the handler's locals and the statement it is at
Idle ==
    [ op |-> "idle", user |-> Anonymous, id |-> 0, body |-> EmptyBody,
      pc |-> "idle", given |-> FALSE, list |-> <<>>, k |-> 0 ]

Init ==
    /\ memo = <<>>
    /\ memo_resource = <<>>
    /\ memo_tag = {}
    /\ clock = 1
    /\ last = Response("none", Anonymous, 0, EmptyBody, NoFilter, 0, <<>>, NoSync)
    /\ flight = [s \in Slots |-> Idle]

(* ---------------- handlers ---------------- *)
\* what a handler leaves behind: the three tables, the HTTP status, the
\* memo views of the response body and the tag synchronizer call it made
Outcome(memos, rows, tags, status, views, sync) ==
    [ memo |-> memos, memo_resource |-> rows, memo_tag |-> tags,
      status |-> status, views |-> views, sync |-> sync ]

Rejected(status) == Outcome(memo, memo_resource, memo_tag, status, <<>>, NoSync)

\* mutant: a failure of the tag synchronizer is thrown on to the handler
TryTagSync_Rethrow(tags, memoId, userId, content, tagOk) ==
    [ thrown |-> ~tagOk,
      tags |-> IF tagOk THEN updateMemoTags(tags, memoId, userId, content) ELSE tags ]

\* try { await updateMemoTags(...) } catch { log }: a failed synchronizer
\* (tagOk = FALSE) writes nothing and its error is swallowed
TryTagSync(tags, memoId, userId, content, tagOk) ==
    [ thrown |-> FALSE,
      tags |-> IF tagOk THEN updateMemoTags(tags, memoId, userId, content) ELSE tags ]

\* mutant: only a missing content is refused, an empty one is stored
CreateOutcome_EmptyContentStored(p, b, tagOk) ==
    LET now == clock
        userId == getUserIdFromUid(p.sub)
        memoId == Len(memo) + 1
        memos == Append(memo, NewMemoRow(uuidv4, userId, b, now))
        rows == InsertAssociations(memo_resource, memoId, CreateFinalResourceIdList(b))
        try == TryTagSync(memo_tag, memoId, userId, b.content, tagOk)
        tags == try.tags
        sync == [called |-> TRUE, memoId |-> memoId, userId |-> userId,
                 content |-> b.content, ok |-> tagOk]
    IN  IF ~p.auth THEN Rejected(401)
        ELSE IF ~b.hasContent THEN Rejected(400)
        ELSE IF userId = Null THEN Rejected(404)
        ELSE IF try.thrown THEN Outcome(memos, rows, tags, 500, <<>>, sync)
        ELSE Outcome(memos, rows, tags, 200,
                     getMemoWithDetails(memos, rows, tags, memoId), sync)

\* POST /
CreateOutcome(p, b, tagOk) ==
    LET now == clock
        userId == getUserIdFromUid(p.sub)
        memoId == Len(memo) + 1
        memos == Append(memo, NewMemoRow(uuidv4, userId, b, now))
        rows == InsertAssociations(memo_resource, memoId, CreateFinalResourceIdList(b))
        try == TryTagSync(memo_tag, memoId, userId, b.content, tagOk)
        tags == try.tags
        sync == [called |-> TRUE, memoId |-> memoId, userId |-> userId,
                 content |-> b.content, ok |-> tagOk]
    IN  IF ~p.auth THEN Rejected(401)
        ELSE IF ~b.hasContent \/ b.content = "" THEN Rejected(400)
        ELSE IF userId = Null THEN Rejected(404)
        ELSE IF try.thrown THEN Outcome(memos, rows, tags, 500, <<>>, sync)
        ELSE Outcome(memos, rows, tags, 200,
                     getMemoWithDetails(memos, rows, tags, memoId), sync)

\* GET /
ListOutcome(f, s) ==
    Outcome(memo, memo_resource, memo_tag, 200,
            [ i \in 1..Len(Page(s)) |->
                getMemoWithDetails(memo, memo_resource, memo_tag, Page(s)[i])[1] ],
            NoSync)

\* GET /:id
GetOutcome(p, memoId) ==
    IF ~(memoId \in MemoIds /\ \E u \in user : u.id = memo[memoId].creator_id)
    THEN Rejected(404)
    ELSE IF ~CanRead(memo[memoId], p) THEN Rejected(403)
    ELSE Outcome(memo, memo_resource, memo_tag, 200,
                 getMemoWithDetails(memo, memo_resource, memo_tag, memoId), NoSync)

\* mutant: the write guard is evaluated before the existence check
UpdateOutcome_GuardFirst(p, memoId, b, tagOk) ==
    LET now == clock
        userId == getUserIdFromUid(p.sub)
        memos == [memo EXCEPT ![memoId] = UpdateFields(@, b, now)]
        rows == ReplaceAssociations(memo_resource, memoId, UpdateFinalResourceIdList(b))
        doSync == b.hasContent /\ userId # Null
        try == IF doSync THEN TryTagSync(memo_tag, memoId, userId, b.content, tagOk)
               ELSE [thrown |-> FALSE, tags |-> memo_tag]
        tags == try.tags
        sync == IF doSync
                THEN [called |-> TRUE, memoId |-> memoId, userId |-> userId,
                      content |-> b.content, ok |-> tagOk]
                ELSE NoSync
    IN  IF ~p.auth THEN Rejected(401)
        ELSE IF p.role # "HOST" /\ (memoId \notin MemoIds \/ ~CanWrite(memo[memoId], p))
             THEN Rejected(403)
        ELSE IF memoId \notin MemoIds THEN Rejected(404)
        ELSE IF try.thrown THEN Outcome(memos, rows, tags, 500, <<>>, sync)
        ELSE Outcome(memos, rows, tags, 200,
                     getMemoWithDetails(memos, rows, tags, memoId), sync)

\* PATCH /:id
UpdateOutcome(p, memoId, b, tagOk) ==
    LET now == clock
        userId == getUserIdFromUid(p.sub)
        memos == [memo EXCEPT ![memoId] = UpdateFields(@, b, now)]
        rows == ReplaceAssociations(memo_resource, memoId, UpdateFinalResourceIdList(b))
        doSync == b.hasContent /\ userId # Null
        try == IF doSync THEN TryTagSync(memo_tag, memoId, userId, b.content, tagOk)
               ELSE [thrown |-> FALSE, tags |-> memo_tag]
        tags == try.tags
        sync == IF doSync
                THEN [called |-> TRUE, memoId |-> memoId, userId |-> userId,
                      content |-> b.content, ok |-> tagOk]
                ELSE NoSync
    IN  IF ~p.auth THEN Rejected(401)
        ELSE IF memoId \notin MemoIds THEN Rejected(404)
        ELSE IF ~CanWrite(memo[memoId], p) THEN Rejected(403)
        ELSE IF try.thrown THEN Outcome(memos, rows, tags, 500, <<>>, sync)
        ELSE Outcome(memos, rows, tags, 200,
                     getMemoWithDetails(memos, rows, tags, memoId), sync)

\* mutant: a delete also removes the memo's associations and tag links
DeleteOutcome_Cleanup(p, memoId) ==
    LET now == clock
    IN  IF ~p.auth THEN Rejected(401)
        ELSE IF memoId \notin MemoIds THEN Rejected(404)
        ELSE IF ~CanWrite(memo[memoId], p) THEN Rejected(403)
        ELSE Outcome([memo EXCEPT ![memoId] = ArchiveFields(@, now)],
                     SelectSeq(memo_resource, LAMBDA r : r.memo_id # memoId),
                     { t \in memo_tag : t[1] # memoId }, 200, <<>>, NoSync)

\* DELETE /:id
DeleteOutcome(p, memoId) ==
    LET now == clock
    IN  IF ~p.auth THEN Rejected(401)
        ELSE IF memoId \notin MemoIds THEN Rejected(404)
        ELSE IF ~CanWrite(memo[memoId], p) THEN Rejected(403)
        ELSE Outcome([memo EXCEPT ![memoId] = ArchiveFields(@, now)],
                     memo_resource, memo_tag, 200, <<>>, NoSync)

\* a handler runs: the store takes its writes, the response is recorded
Apply(o, op, p, memoId, b, f) ==
    /\ memo' = o.memo
    /\ memo_resource' = o.memo_resource
    /\ memo_tag' = o.memo_tag
    /\ last' = Response(op, p, memoId, b, f, o.status, o.views, o.sync)
    /\ UNCHANGED <<clock, flight>>

\* cap bounds the number of rows the explored store holds
Create(p, b, tagOk, cap) ==
    LET o == CreateOutcome(p, b, tagOk)
    IN  /\ (Len(o.memo) > Len(memo) => Len(memo) < cap)
        /\ Apply(o, "create", p, IF Len(o.memo) > Len(memo) THEN Len(memo) + 1 ELSE 0,
                 b, NoFilter)

List(f) ==
    \E s \in ListOrders(f) :
        Apply(ListOutcome(f, s), "list", Anonymous, 0, EmptyBody, f)

Get(p, memoId) ==
    /\ memoId \in Int
    /\ Apply(GetOutcome(p, memoId), "get", p, memoId, EmptyBody, NoFilter)

Update(p, memoId, b, tagOk) ==
    /\ memoId \in Int
    /\ Apply(UpdateOutcome(p, memoId, b, tagOk), "update", p, memoId, b, NoFilter)

Delete(p, memoId) ==
    /\ memoId \in Int
    /\ Apply(DeleteOutcome(p, memoId), "delete", p, memoId, EmptyBody, NoFilter)

\* a second of wall-clock time passes between two requests
Tick ==
    /\ clock < MaxClock
    /\ clock' = clock + 1
    /\ UNCHANGED <<memo, memo_resource, memo_tag, last, flight>>

(* ---------------- the requests explored ---------------- *)
WithContent(b, c) == [b EXCEPT !.hasContent = TRUE, !.content = c]
WithVisibility(b, v) == [b EXCEPT !.hasVisibility = TRUE, !.visibility = v]
WithIdList(b, l) == [b EXCEPT !.hasIdList = TRUE, !.resourceIdList = l]
WithResources(b, rs) == [b EXCEPT !.hasResources = TRUE, !.resources = rs]

User(sub, role) == [auth |-> TRUE, sub |-> sub, role |-> role]

RequestIds == 1..(MaxMemos + 1)

Creators == { Anonymous, User("alice", "USER"), User("ghost", "USER") }

CreateBodies ==
    { EmptyBody,
      WithContent(EmptyBody, "hello"),
      WithResources(WithVisibility(WithContent(EmptyBody, "hi #world"), "PUBLIC"),
                    << Res(<<"r", "/", "b">>), Res(<<"x", "/", "r", "/", "a">>) >>) }

UpdateBodies ==
    { WithVisibility(EmptyBody, "PUBLIC"),
      WithIdList(WithVisibility(WithContent(EmptyBody, "hello"), "PRIVATE"), <<>>) }

ListFilters ==
    { NoFilter,
      [NoFilter EXCEPT !.creatorId = 1],
      [NoFilter EXCEPT !.rowStatus = "ARCHIVED", !.visibility = "PRIVATE"],
      [NoFilter EXCEPT !.tag = "world"] }

Callers ==
    { Anonymous, User("alice", "USER"), User("bob", "USER"), User("bob", "HOST"),
      User("ghost", "HOST") }

Next ==
    \/ \E p \in Creators, b \in CreateBodies : Create(p, b, TRUE, MaxMemos)
    \/ \E f \in ListFilters : List(f)
    \/ \E p \in Callers, i \in RequestIds : Get(p, i)
    \/ \E p \in Callers, i \in RequestIds, b \in UpdateBodies : Update(p, i, b, TRUE)
    \/ \E p \in Callers, i \in RequestIds : Delete(p, i)

Spec == Init /\ [][Next]_vars

(* ---------------- read and write guards ---------------- *)
IsOwner(p, m) == p.auth /\ getUserIdFromUid(p.sub) = m.creator_id

MayWrite(p, m) == p.auth /\ (getUserIdFromUid(p.sub) = m.creator_id \/ p.role = "HOST")

\* a response that carries the view of memo i as it is stored
IsViewOf(views, i) ==
    /\ Len(views) = 1
    /\ views[1].id = i
    /\ views[1].uid = memo[i].uid
    /\ views[1].creatorId = memo[i].creator_id
    /\ views[1].content = memo[i].content
    /\ views[1].visibility = memo[i].visibility
    /\ views[1].rowStatus = memo[i].row_status

\* the recorded response of a fetch is the fetch handler's outcome
LastGetIsOutcome ==
    last.op = "get" =>
        /\ last.status = GetOutcome(last.user, last.id).status
        /\ last.views = GetOutcome(last.user, last.id).views

\* C1: a PRIVATE memo is returned by a fetch exactly to its authenticated
\* owner (the requester whose uid resolves to the memo's owner id); every
\* other requester, anonymous, non-owner of any role or with a uid that
\* resolves to no user, gets 403 Forbidden.
C1_PrivateReadOnlyByOwner ==
    /\ LastGetIsOutcome
    /\ \A i \in MemoIds, p \in Principals :
         memo[i].visibility = "PRIVATE" =>
           LET o == GetOutcome(p, i)
           IN  IF IsOwner(p, memo[i])
               THEN o.status = 200 /\ IsViewOf(o.views, i)
               ELSE o.status = 403 /\ o.views = <<>>

C1_Witness ==
    /\ last.op = "get"
    /\ last.id \in MemoIds
    /\ memo[last.id].visibility = "PRIVATE"
    /\ last.user = User("bob", "HOST")
    /\ last.status = 403

\* C2: a PUBLIC memo, NORMAL or ARCHIVED, is returned by a fetch to any
\* requester: anonymous, its owner or any other principal.
C2_PublicReadByAnyone ==
    /\ LastGetIsOutcome
    /\ \A i \in MemoIds, p \in Principals :
         memo[i].visibility = "PUBLIC" =>
           LET o == GetOutcome(p, i)
           IN  o.status = 200 /\ IsViewOf(o.views, i)

C2_Witness ==
    /\ last.op = "get"
    /\ last.id \in MemoIds
    /\ memo[last.id].visibility = "PUBLIC"
    /\ memo[last.id].row_status = "ARCHIVED"
    /\ last.user = Anonymous
    /\ last.status = 200
    /\ IsViewOf(last.views, last.id)

\* update bodies that would change the content, the visibility, the
\* associations and the tags of a memo
ProbeBodies ==
    UpdateBodies \cup
    { EmptyBody,
      WithContent(EmptyBody, "hi #world"),
      WithIdList(EmptyBody, <<7>>),
      WithResources(EmptyBody, << Res(<<"r", "/", "b">>) >>) }

StoreOf(o) == <<o.memo, o.memo_resource, o.memo_tag>>

\* C3: an update or delete by a requester who is not authenticated, or who
\* is neither the memo's owner nor a HOST, is rejected (401 without a
\* principal, 403 otherwise) and leaves the memo rows, the associations and
\* the tag links unchanged.
C3_WriteGuard ==
    /\ (last.op \in {"update", "delete"} /\ last.id \in MemoIds
          /\ ~MayWrite(last.user, memo[last.id]))
         => last.status = (IF last.user.auth THEN 403 ELSE 401)
    /\ \A i \in MemoIds, p \in Principals :
         ~MayWrite(p, memo[i]) =>
           /\ \A b \in ProbeBodies, tagOk \in BOOLEAN :
                LET o == UpdateOutcome(p, i, b, tagOk)
                IN  /\ o.status = (IF p.auth THEN 403 ELSE 401)
                    /\ StoreOf(o) = <<memo, memo_resource, memo_tag>>
           /\ LET o == DeleteOutcome(p, i)
              IN  /\ o.status = (IF p.auth THEN 403 ELSE 401)
                  /\ StoreOf(o) = <<memo, memo_resource, memo_tag>>

C3_Witness ==
    /\ last.op = "update"
    /\ last.id \in MemoIds
    /\ last.user = User("bob", "USER")
    /\ last.body.hasContent
    /\ last.status = 403
    /\ RowsOf(memo_resource, last.id) # <<>>
    /\ \E t \in memo_tag : t[1] = last.id

C10_Step ==
    /\ Len(memo') >= Len(memo)
    /\ \A i \in 1..Len(memo') : i \notin MemoIds => memo'[i].row_status = "NORMAL"
    /\ \A i \in MemoIds :
         memo[i].row_status = "ARCHIVED" => memo'[i].row_status = "ARCHIVED"
    /\ (last'.op = "delete" /\ last'.user.auth /\ last'.id \in MemoIds)
         => IF MayWrite(last'.user, memo[last'.id])
            THEN last'.status = 200 /\ memo'[last'.id].row_status = "ARCHIVED"
            ELSE last'.status = 403 /\ memo' = memo

\* C10: a memo is created NORMAL; no request removes a row or turns an
\* ARCHIVED memo NORMAL again; deleting an ARCHIVED memo leaves it ARCHIVED
\* when the write guard passes and is Forbidden for a non-owner non-HOST.
C10_OneWayLifecycle == [][C10_Step]_vars

C10_Witness ==
    /\ last.op = "delete"
    /\ last.id \in MemoIds
    /\ memo[last.id].row_status = "ARCHIVED"
    /\ last.user = User("bob", "USER")
    /\ last.status = 403

(* ---------------- resource resolution ---------------- *)
Owner == User("alice", "USER")
Host == User("bob", "HOST")

ResCreateBodies ==
    { WithContent(EmptyBody, "hello"),
      WithIdList(WithContent(EmptyBody, "hello"), <<8, 7>>),
      WithResources(WithContent(EmptyBody, "hello"),
                    << Res(<<"a">>), Res(<<"r", "/", "a">>) >>),
      WithResources(WithContent(EmptyBody, "hello"),
                    << Res(<<"r", "/", "z">>), Res(<<"r", "/", "b">>) >>),
      WithResources(WithIdList(WithContent(EmptyBody, "hello"), <<7>>),
                    << NamelessRes, Res(<<"r", "/">>) >>) }

ResUpdateBodies ==
    { EmptyBody,
      WithIdList(EmptyBody, <<>>),
      WithIdList(EmptyBody, <<7>>),
      WithResources(EmptyBody, <<>>),
      WithResources(EmptyBody, << Res(<<"r", "/", "a">>) >>),
      WithResources(EmptyBody, << Res(<<"r", "/", "z">>) >>),
      WithResources(WithIdList(EmptyBody, <<8, 7>>),
                    << Res(<<"r", "/", "b">>), Res(<<"x", "/", "r", "/", "a">>) >>),
      WithResources(WithIdList(EmptyBody, <<7>>),
                    << Res(<<"r", "/", "z">>), Res(<<"r", "/", "b">>) >>) }

NextRes ==
    \/ \E b \in ResCreateBodies : Create(Owner, b, TRUE, MaxMemos)
    \/ \E p \in {Owner, Host}, i \in RequestIds, b \in ResUpdateBodies :
           Update(p, i, b, TRUE)
    \/ \E i \in RequestIds : Get(Owner, i)

SpecRes == Init /\ [][NextRes]_vars

\* every resource shape with and without a content field
ResProbeBodies ==
    { [ hasContent |-> c, content |-> IF c THEN "hello" ELSE "",
        hasVisibility |-> FALSE, visibility |-> "PRIVATE",
        hasIdList |-> il.has, resourceIdList |-> il.list,
        hasResources |-> rl.has, resources |-> rl.list ] :
      c \in BOOLEAN, il \in IdListFields, rl \in ResourcesFields }

\* resource ids of all memo_resource rows of a memo, in storage order
RowIds(rows, memoId) ==
    [ k \in 1..Len(RowsOf(rows, memoId)) |-> RowsOf(rows, memoId)[k].resource_id ]

\* the uid a reference names: what follows its last '/'
UidOf(name) ==
    LET slashes == { k \in 1..Len(name) : name[k] = "/" }
        start == IF slashes = {} THEN 1
                 ELSE (CHOOSE k \in slashes : \A j \in slashes : j <= k) + 1
    IN  SubSeq(name, start, Len(name))

Resolves(r) == r.hasName /\ \E d \in resource : d.uid = UidOf(r.name)

\* the store ids of the references that resolve, in input order, repeats kept
ExpectedIds(rs) ==
    LET hits == SelectSeq(rs, Resolves)
    IN  [ k \in 1..Len(hits) |->
            (CHOOSE d \in resource : d.uid = UidOf(hits[k].name)).id ]

\* the list an update body provides explicitly
Provided(b) ==
    IF b.hasResources /\ b.resources # <<>> THEN ExpectedIds(b.resources)
    ELSE IF b.hasIdList THEN b.resourceIdList
    ELSE <<>>

C4_Step ==
    (last'.op = "update" /\ last'.status = 200) =>
        IF last'.body.hasIdList \/ last'.body.hasResources
        THEN RowIds(memo_resource', last'.id) = Provided(last'.body)
        ELSE RowIds(memo_resource', last'.id) = RowIds(memo_resource, last'.id)

\* C4: a permitted update that provides resourceIdList or resources, empty
\* or not, leaves the memo associated with exactly the provided list; one
\* that provides neither leaves the memo's associations as they were.
C4_ExplicitListReplaces == [][C4_Step]_vars

\* C5: a create or update with a non-empty resources list writes for the
\* memo exactly the ids its references resolve to, in input order and with
\* repeats, whatever resourceIdList says; on update they replace every
\* earlier association.
C5_StructuredResourcesWin ==
    /\ (last.op \in {"create", "update"} /\ last.status = 200
          /\ Len(last.body.resources) > 0)
         => /\ RowIds(memo_resource, last.id) = ExpectedIds(last.body.resources)
            /\ last.views[1].resourceIdList = ExpectedIds(last.body.resources)
    /\ \A b \in ResProbeBodies :
         Len(b.resources) > 0 =>
           /\ b.hasContent =>
                RowIds(CreateOutcome(Owner, b, TRUE).memo_resource, Len(memo) + 1)
                  = ExpectedIds(b.resources)
           /\ \A i \in MemoIds, p \in {Owner, Host} :
                RowIds(UpdateOutcome(p, i, b, TRUE).memo_resource, i)
                  = ExpectedIds(b.resources)

C5_Witness ==
    /\ last.op = "update"
    /\ last.status = 200
    /\ last.body.hasIdList /\ last.body.resourceIdList = <<8, 7>>
    /\ Len(last.body.resources) = 2
    /\ RowIds(memo_resource, last.id) = <<8, 7>>
    /\ last.views[1].resources = << <<"r", "/", "b">>, <<"r", "/", "a">> >>

HasMiss(b) == Len(b.resources) > 0 /\ \E k \in 1..Len(b.resources) : ~Resolves(b.resources[k])

\* C6: a reference with no name or with a uid the resource store does not
\* hold is dropped: the create or update answers 200 with the memo view,
\* the memo row carries the request's fields and the associations are the
\* references that resolved.
C6_MissIsDropped ==
    /\ (last.op \in {"create", "update"} /\ last.user \in {Owner, Host}
          /\ last.id \in MemoIds /\ HasMiss(last.body))
         => /\ last.status = 200
            /\ Len(last.views) = 1
            /\ last.views[1].resourceIdList = ExpectedIds(last.body.resources)
    /\ \A b \in ResProbeBodies :
         HasMiss(b) =>
           /\ b.hasContent =>
                LET o == CreateOutcome(Owner, b, TRUE)
                    n == Len(memo) + 1
                IN  /\ o.status = 200
                    /\ Len(o.views) = 1 /\ o.views[1].id = n
                    /\ Len(o.memo) = n /\ o.memo[n].content = b.content
                    /\ RowIds(o.memo_resource, n) = ExpectedIds(b.resources)
           /\ \A i \in MemoIds, p \in {Owner, Host} :
                LET o == UpdateOutcome(p, i, b, TRUE)
                IN  /\ o.status = 200
                    /\ Len(o.views) = 1 /\ o.views[1].id = i
                    /\ (b.hasContent => o.memo[i].content = b.content)
                    /\ RowIds(o.memo_resource, i) = ExpectedIds(b.resources)

C6_Witness ==
    /\ last.op = "update"
    /\ last.status = 200
    /\ last.body.resources = << Res(<<"r", "/", "z">>), Res(<<"r", "/", "b">>) >>
    /\ last.views[1].resourceIdList = <<8>>

(* ---------------- tag synchronizer failure ---------------- *)
TagCreateBodies ==
    { WithResources(WithVisibility(WithContent(EmptyBody, "hi #world"), "PUBLIC"),
                    << Res(<<"r", "/", "a">>) >>) }

TagUpdateBodies ==
    { WithIdList(WithContent(EmptyBody, "hello"), <<8>>),
      WithContent(EmptyBody, "hi #world") }

NextTag ==
    \/ \E b \in TagCreateBodies, tagOk \in BOOLEAN : Create(Owner, b, tagOk, MaxMemos)
    \/ \E p \in {Owner, Host}, i \in RequestIds, b \in TagUpdateBodies, tagOk \in BOOLEAN :
           Update(p, i, b, tagOk)
    \/ \E i \in RequestIds : Get(Owner, i)

SpecTag == Init /\ [][NextTag]_vars

TagProbeBodies == TagCreateBodies \cup TagUpdateBodies

\* C7: when the tag synchronizer fails in a create or an update, the
\* request still answers 200 with the memo view, and the memo row and the
\* associations written before the tag step are in the store, the same as
\* when the synchronizer succeeds.
C7_TagFailureTolerated ==
    /\ (last.op \in {"create", "update"} /\ last.sync.called /\ ~last.sync.ok)
         => /\ last.status = 200
            /\ IsViewOf(last.views, last.id)
            /\ memo[last.id].content = last.body.content
            /\ RowIds(memo_resource, last.id) = last.views[1].resourceIdList
            /\ (last.body.hasIdList \/ last.body.hasResources)
                 => RowIds(memo_resource, last.id) = Provided(last.body)
    /\ \A b \in TagProbeBodies :
         /\ LET f == CreateOutcome(Owner, b, FALSE)
                t == CreateOutcome(Owner, b, TRUE)
            IN  /\ f.status = 200 /\ Len(f.views) = 1
                /\ f.memo = t.memo /\ Len(f.memo) = Len(memo) + 1
                /\ f.memo_resource = t.memo_resource
                /\ f.views[1].content = b.content
         /\ \A i \in MemoIds, p \in {Owner, Host} :
              LET f == UpdateOutcome(p, i, b, FALSE)
                  t == UpdateOutcome(p, i, b, TRUE)
              IN  /\ f.status = 200 /\ Len(f.views) = 1
                  /\ f.memo = t.memo /\ f.memo[i].content = b.content
                  /\ f.memo_resource = t.memo_resource
                  /\ f.views[1].content = b.content

C7_Witness ==
    /\ last.op = "update"
    /\ last.sync.called /\ ~last.sync.ok
    /\ last.status = 200
    /\ last.views[1].content = "hello"
    /\ last.views[1].resourceIdList = <<8>>
    /\ last.views[1].tags = {"world"}

(* ---------------- timestamps and fields ---------------- *)
TimeCreateBodies == { WithVisibility(WithContent(EmptyBody, "hello"), "PUBLIC") }

TimeUpdateBodies == { EmptyBody, WithContent(EmptyBody, "hi #world") }

NextTime ==
    \/ \E b \in TimeCreateBodies : Create(Owner, b, TRUE, MaxMemos)
    \/ \E i \in RequestIds, b \in TimeUpdateBodies : Update(Owner, i, b, TRUE)
    \/ \E i \in RequestIds : Delete(Owner, i)
    \/ \E i \in RequestIds : Get(Owner, i)
    \/ Tick

SpecTime == Init /\ [][NextTime]_vars

\* C8: every update that passes the existence check and the write guard
\* leaves the memo's updated timestamp at the time of the request, whatever
\* fields the body carries.
C8_UpdatedTsRefreshed ==
    (last.op = "update" /\ last.status = 200)
        => memo[last.id].updated_ts = last.now

\* update bodies with and without a content and a visibility field
FieldProbeBodies ==
    { EmptyBody,
      WithContent(EmptyBody, "hi #world"),
      WithVisibility(EmptyBody, "PRIVATE"),
      WithVisibility(EmptyBody, "PUBLIC"),
      WithVisibility(WithContent(EmptyBody, "hello"), "PRIVATE"),
      WithIdList(EmptyBody, <<7>>) }

SameIdentity(m, n) ==
    /\ n.uid = m.uid
    /\ n.creator_id = m.creator_id
    /\ n.created_ts = m.created_ts

C9_Outcomes ==
    /\ \A i, j \in MemoIds : i # j => memo[i].uid # memo[j].uid
    /\ \A i \in MemoIds, p \in {Owner, Host} :
         /\ \A b \in FieldProbeBodies :
              LET m == UpdateOutcome(p, i, b, TRUE).memo
              IN  /\ Len(m) = Len(memo)
                  /\ SameIdentity(memo[i], m[i])
                  /\ m[i].row_status = memo[i].row_status
                  /\ (~b.hasContent => m[i].content = memo[i].content)
                  /\ (~b.hasVisibility => m[i].visibility = memo[i].visibility)
                  /\ \A j \in MemoIds : j # i => m[j] = memo[j]
         /\ SameIdentity(memo[i], DeleteOutcome(p, i).memo[i])
         /\ GetOutcome(p, i).memo = memo

C9_Step ==
    /\ \A i \in MemoIds : i \in 1..Len(memo') /\ SameIdentity(memo[i], memo'[i])
    /\ \A i \in MemoIds :
         last'.op \in {"update", "get", "list"} => memo'[i].row_status = memo[i].row_status
    /\ (last'.op = "update" /\ last'.id \in MemoIds /\ ~last'.body.hasContent)
         => memo'[last'.id].content = memo[last'.id].content
    /\ (last'.op = "update" /\ last'.id \in MemoIds /\ ~last'.body.hasVisibility)
         => memo'[last'.id].visibility = memo[last'.id].visibility

\* C9: an update leaves the content as it was when the body has no content
\* and the visibility as it was when the body has no visibility; no request
\* changes the uid, the owner id or the creation timestamp of a memo, an
\* update or a fetch does not change its lifecycle status, and the uids of
\* distinct memos are distinct.
C9_FieldsAndIdentityKept == []C9_Outcomes /\ [][C9_Step]_vars

C9_Witness ==
    /\ Len(memo) = 2
    /\ memo[1].uid # memo[2].uid
    /\ last.op = "update"
    /\ last.status = 200
    /\ last.body.hasContent /\ ~last.body.hasVisibility
    /\ memo[last.id].content = "hi #world"
    /\ memo[last.id].visibility = "PUBLIC"
    /\ memo[last.id].updated_ts > memo[last.id].created_ts

(* ---------------- route dispatch and statistics ---------------- *)
\* the routes of memoRoutes in the order they are registered
Routes ==
    << [method |-> "POST", path |-> "/"],
       [method |-> "GET", path |-> "/"],
       [method |-> "GET", path |-> "/:id"],
       [method |-> "PATCH", path |-> "/:id"],
       [method |-> "DELETE", path |-> "/:id"],
       [method |-> "GET", path |-> "/stats"] >>

\* the path segment of a stats request, as characters
StatsSegment == <<"s", "t", "a", "t", "s">>

\* a request path is the sequence of its segments; '/' has none
RouteMatches(r, method, path) ==
    /\ r.method = method
    /\ CASE r.path = "/" -> path = <<>>
         [] r.path = "/:id" -> Len(path) = 1 /\ path[1] # <<>>
         [] r.path = "/stats" -> path = <<StatsSegment>>

\* the first registered route that matches answers the request; 0 for none
Dispatch(method, path) ==
    LET hits == { k \in DOMAIN Routes : RouteMatches(Routes[k], method, path) }
    IN  IF hits = {} THEN 0 ELSE CHOOSE k \in hits : \A j \in hits : k <= j

\* what parseInt gives for a string that does not start with a digit; no
\* memo row has it as id
NaN == -1

DigitValue ==
    [ c \in {"0", "1", "2", "3", "4", "5", "6", "7", "8", "9"} |->
        CASE c = "0" -> 0 [] c = "1" -> 1 [] c = "2" -> 2 [] c = "3" -> 3
          [] c = "4" -> 4 [] c = "5" -> 5 [] c = "6" -> 6 [] c = "7" -> 7
          [] c = "8" -> 8 [] c = "9" -> 9 ]

\* the number of leading digits of s
RECURSIVE LeadingDigits(_)
LeadingDigits(s) ==
    IF s = <<>> \/ Head(s) \notin DOMAIN DigitValue THEN 0
    ELSE 1 + LeadingDigits(Tail(s))

RECURSIVE DecimalValue(_)
DecimalValue(s) ==
    IF s = <<>> THEN 0
    ELSE 10 * DecimalValue(SubSeq(s, 1, Len(s) - 1)) + DigitValue[s[Len(s)]]

\* parseInt of a path parameter: the value of its leading digits
ParseInt(s) ==
    IF LeadingDigits(s) = 0 THEN NaN
    ELSE DecimalValue(SubSeq(s, 1, LeadingDigits(s)))

SecondsPerDay == 24 * 60 * 60
ThirtyDays == 30 * SecondsPerDay

\* the memos the statistics count
Counted == { i \in MemoIds : memo[i].row_status = "NORMAL" /\ memo[i].visibility = "PUBLIC" }

\* GROUP BY DATE(created_ts, 'unixepoch') ORDER BY date DESC
RECURSIVE DailyHistogram(_)
DailyHistogram(ids) ==
    IF ids = {} THEN <<>>
    ELSE LET day == CHOOSE d \in { memo[i].created_ts \div SecondsPerDay : i \in ids } :
                        \A i \in ids : memo[i].created_ts \div SecondsPerDay <= d
             same == { i \in ids : memo[i].created_ts \div SecondsPerDay = day }
         IN  << [ts |-> day * SecondsPerDay, count |-> Cardinality(same)] >>
               \o DailyHistogram(ids \ same)

\* GET /stats
StatsOutcome ==
    Outcome(memo, memo_resource, memo_tag, 200,
            << [ total |-> Cardinality(Counted),
                 dailyHistogram |->
                   DailyHistogram({ i \in Counted :
                                      memo[i].created_ts > clock - ThirtyDays }) ] >>,
            NoSync)

\* a GET request with a one-segment path, answered by the route it is
\* dispatched to
GetPathOutcome(p, seg) ==
    LET k == Dispatch("GET", <<seg>>)
    IN  CASE k = 3 -> GetOutcome(p, ParseInt(seg))
          [] k = 6 -> StatsOutcome
          [] OTHER -> Rejected(404)

\* GET /stats arrives at memoRoutes
StatsRequest(p) ==
    /\ p \in Principals
    /\ Apply(GetPathOutcome(p, StatsSegment), "GET /stats", p,
             ParseInt(StatsSegment), EmptyBody, NoFilter)

\* GET /<digits> arrives at memoRoutes
GetRequest(p, seg) ==
    /\ seg \in Seq(DOMAIN DigitValue)
    /\ Apply(GetPathOutcome(p, seg), "get", p, ParseInt(seg), EmptyBody, NoFilter)

\* the decimal numeral of a small memo id
Numeral(i) == << CHOOSE c \in DOMAIN DigitValue : DigitValue[c] = i >>

(* ---------------- listing and soft delete ---------------- *)
Reader == User("bob", "USER")

ListCreateBodies ==
    { WithContent(EmptyBody, "hello"),
      WithVisibility(WithContent(EmptyBody, "hi #world"), "PUBLIC") }

NextList ==
    \/ \E p \in {Owner, Reader}, b \in ListCreateBodies : Create(p, b, TRUE, MaxMemos)
    \/ \E p \in {Owner, Host}, i \in RequestIds : Delete(p, i)
    \/ \E f \in ListFilters : List(f)
    \/ \E p \in {Anonymous, Owner, Reader}, i \in RequestIds : GetRequest(p, Numeral(i))
    \/ \E p \in {Anonymous, Owner} : StatsRequest(p)

SpecList == Init /\ [][NextList]_vars

\* the ids of the memos a list response carries
ListedIds(views) == { views[k].id : k \in 1..Len(views) }

\* the recorded response of a list is the list handler's outcome for one of
\* the orders the query allows
LastListIsOutcome ==
    last.op = "list" =>
        \E s \in ListOrders(last.filter) : last.views = ListOutcome(last.filter, s).views

C11_Archived ==
    /\ LastListIsOutcome
    /\ LastGetIsOutcome
    /\ \A i \in MemoIds :
         memo[i].row_status = "ARCHIVED" =>
           /\ \A f \in Filters :
                f.rowStatus = "" =>
                  \A s \in ListOrders(f) : i \notin ListedIds(ListOutcome(f, s).views)
           /\ \A p \in Principals :
                (memo[i].visibility = "PUBLIC" \/ IsOwner(p, memo[i])) =>
                  LET o == GetOutcome(p, i)
                  IN  /\ o.status = 200
                      /\ IsViewOf(o.views, i)
                      /\ o.views[1].rowStatus = "ARCHIVED"

C11_Step ==
    /\ (last'.op = "delete" /\ last'.status = 200)
         => last'.id \in MemoIds /\ memo'[last'.id].row_status = "ARCHIVED"
    /\ \A i \in MemoIds :
         memo[i].row_status = "ARCHIVED"
           => i \in 1..Len(memo') /\ memo'[i].row_status = "ARCHIVED"

\* C11: a successful delete leaves the memo ARCHIVED for good; from then on
\* no list with the default status filter returns it, whatever its other
\* filters, and a fetch by a requester who passes the read guard answers
\* 200 with the memo's view, status ARCHIVED.
C11_DeletedHiddenFromListNotFetch == []C11_Archived /\ [][C11_Step]_vars

C11_Witness ==
    /\ Len(memo) = 2
    /\ memo[1].row_status = "ARCHIVED" /\ memo[1].visibility = "PUBLIC"
    /\ last.op = "list"
    /\ last.filter = NoFilter
    /\ ListedIds(last.views) = {2}

\* the status a list request asks for
RequestedStatus(f) == IF f.rowStatus = "" THEN "NORMAL" ELSE f.rowStatus

\* C13: a list without visibility and without creatorId returns only PUBLIC
\* memos; a list with creatorId and without visibility returns exactly that
\* owner's memos of the requested status (carrying the tag, when one is
\* asked for), PRIVATE ones included; the handler never reads the requester.
C13_ListVisibilityDefault ==
    /\ LastListIsOutcome
    /\ \A f \in Filters :
         f.visibility = "" =>
           \A s \in ListOrders(f) :
             LET v == ListOutcome(f, s).views
             IN  IF f.creatorId = Null
                 THEN \A k \in 1..Len(v) :
                        /\ v[k].visibility = "PUBLIC"
                        /\ memo[v[k].id].visibility = "PUBLIC"
                 ELSE /\ ListedIds(v) =
                           { i \in MemoIds :
                               /\ memo[i].creator_id = f.creatorId
                               /\ memo[i].row_status = RequestedStatus(f)
                               /\ (f.tag # "" => <<i, f.tag>> \in memo_tag) }
                      /\ \A k \in 1..Len(v) : IsViewOf(<<v[k]>>, v[k].id)

C13_Witness ==
    /\ last.op = "list"
    /\ last.filter = [NoFilter EXCEPT !.creatorId = 1]
    /\ Len(last.views) = 1
    /\ last.views[1].visibility = "PRIVATE"
    /\ \E i \in MemoIds : memo[i].creator_id = 2 /\ memo[i].row_status = "NORMAL"

\* C14: a GET on the stats path is answered by the stats operation: status
\* 200 and a total equal to the number of NORMAL PUBLIC memos in the store.
C14_StatsAnswered ==
    last.op = "GET /stats" =>
        /\ last.status = 200
        /\ Len(last.views) = 1
        /\ last.views[1] = StatsOutcome.views[1]
        /\ last.views[1].total = Cardinality(Counted)

(* ---------------- what a delete leaves alone ---------------- *)
NextDel ==
    \/ \E b \in TagCreateBodies : Create(Owner, b, TRUE, MaxMemos)
    \/ \E p \in {Owner, Host}, i \in RequestIds : Delete(p, i)
    \/ \E i \in RequestIds : Get(Reader, i)
    \/ Tick

SpecDel == Init /\ [][NextDel]_vars

\* n is m soft-deleted at time now: only the status and updated_ts differ
ArchivedAt(m, n, now) ==
    /\ SameIdentity(m, n)
    /\ n.content = m.content
    /\ n.visibility = m.visibility
    /\ n.row_status = "ARCHIVED"
    /\ n.updated_ts = now

C12_Outcomes ==
    \A i \in MemoIds, p \in Principals :
        LET o == DeleteOutcome(p, i)
        IN  o.status = 200 =>
              /\ Len(o.memo) = Len(memo)
              /\ ArchivedAt(memo[i], o.memo[i], clock)
              /\ \A j \in MemoIds : j # i => o.memo[j] = memo[j]
              /\ o.memo_resource = memo_resource
              /\ o.memo_tag = memo_tag

C12_Step ==
    (last'.op = "delete" /\ last'.status = 200) =>
        /\ last'.id \in MemoIds
        /\ Len(memo') = Len(memo)
        /\ ArchivedAt(memo[last'.id], memo'[last'.id], last'.now)
        /\ \A j \in MemoIds : j # last'.id => memo'[j] = memo[j]
        /\ memo_resource' = memo_resource
        /\ memo_tag' = memo_tag

\* C12: a successful delete keeps the memo row and every other row, sets
\* the memo's status to ARCHIVED and its updated_ts to the request's time,
\* leaves its content, visibility, uid, owner and created_ts as they were,
\* and leaves all resource associations and tag links as they were.
C12_DeleteOnlyArchives == []C12_Outcomes /\ [][C12_Step]_vars

C12_Witness ==
    /\ last.op = "delete"
    /\ last.status = 200
    /\ last.user = Host
    /\ memo[last.id].row_status = "ARCHIVED"
    /\ memo[last.id].updated_ts > memo[last.id].created_ts
    /\ RowIds(memo_resource, last.id) = <<7>>
    /\ <<last.id, "world">> \in memo_tag

(* ---------------- create ---------------- *)
NextCreate ==
    \/ \E p \in Creators, b \in CreateBodies \cup {WithContent(EmptyBody, "")} :
           Create(p, b, TRUE, MaxMemos)
    \/ \E i \in RequestIds : Get(Owner, i)
    \/ Tick

SpecCreate == Init /\ [][NextCreate]_vars

\* create bodies with content absent, empty and present, with and without
\* a visibility and a resource list
CreateProbeBodies ==
    { [ hasContent |-> c.has, content |-> c.text,
        hasVisibility |-> v.has, visibility |-> v.value,
        hasIdList |-> il.has, resourceIdList |-> il.list,
        hasResources |-> FALSE, resources |-> <<>> ] :
      c \in { [has |-> FALSE, text |-> ""], [has |-> TRUE, text |-> ""],
              [has |-> TRUE, text |-> "hi #world"] },
      v \in { [has |-> FALSE, value |-> "PRIVATE"], [has |-> TRUE, value |-> "PUBLIC"],
              [has |-> TRUE, value |-> "PRIVATE"] },
      il \in { AbsentList, [has |-> TRUE, list |-> <<7>>] } }

NoContent(b) == ~b.hasContent \/ b.content = ""

\* row n of memos is a memo just created by p with body b at time now
FreshRow(memos, n, p, b, now) ==
    /\ Len(memos) = n
    /\ memos[n].creator_id = getUserIdFromUid(p.sub)
    /\ memos[n].creator_id \in { u.id : u \in user }
    /\ memos[n].row_status = "NORMAL"
    /\ memos[n].content = b.content
    /\ \A i \in 1..(n - 1) : memos[i].uid # memos[n].uid
    /\ memos[n].created_ts = now
    /\ memos[n].updated_ts = now
    /\ (~b.hasVisibility => memos[n].visibility = "PRIVATE")
    /\ (b.hasVisibility => memos[n].visibility = b.visibility)

C15_Outcomes ==
    \A p \in Principals, b \in CreateProbeBodies, tagOk \in BOOLEAN :
        LET o == CreateOutcome(p, b, tagOk)
        IN  /\ ~p.auth => o.status = 401
            /\ (p.auth /\ NoContent(b)) => o.status = 400
            /\ o.status \in {401, 400} => StoreOf(o) = <<memo, memo_resource, memo_tag>>
            /\ (p.auth /\ ~NoContent(b) /\ getUserIdFromUid(p.sub) # Null) => o.status = 200
            /\ o.status = 200 =>
                 /\ FreshRow(o.memo, Len(memo) + 1, p, b, clock)
                 /\ SubSeq(o.memo, 1, Len(memo)) = memo

C15_Step ==
    (last'.op = "create" /\ last' # last) =>
        /\ ~last'.user.auth => last'.status = 401
        /\ (last'.user.auth /\ NoContent(last'.body)) => last'.status = 400
        /\ last'.status \in {401, 400}
             => <<memo', memo_resource', memo_tag'>> = <<memo, memo_resource, memo_tag>>
        /\ last'.status = 200 =>
             /\ FreshRow(memo', Len(memo) + 1, last'.user, last'.body, last'.now)
             /\ SubSeq(memo', 1, Len(memo)) = memo

\* C15: a create without a principal answers 401 and one with missing or
\* empty content answers 400, and neither writes a memo row, an association
\* or a tag link; a successful create appends exactly one memo row, owned
\* by the id the requester's uid resolves to, NORMAL, with a uid no earlier
\* memo has, created_ts = updated_ts = the request's time, and visibility
\* PRIVATE when the body names none.
C15_CreateContract == []C15_Outcomes /\ [][C15_Step]_vars

C15_Witness ==
    /\ last.op = "create"
    /\ last.status = 200
    /\ ~last.body.hasVisibility
    /\ last.id = 2
    /\ memo[2].visibility = "PRIVATE"
    /\ memo[2].created_ts = 2 /\ memo[2].updated_ts = 2
    /\ memo[1].visibility = "PUBLIC"
    /\ memo[1].uid # memo[2].uid

(* ---------------- not found and forbidden ---------------- *)
\* ids no memo row has: past the last row, zero, and an unparsable parameter
AbsentIds == ({NaN} \cup 0..(MaxMemos + 1)) \ MemoIds

\* C16 as stated: a fetch, update or delete of an id that is not in the
\* store answers 404 whoever asks, and 403 is only answered for a memo that
\* exists.
C16_AbsentIsNotFound ==
    /\ (last.op \in {"get", "update", "delete"} /\ last.id \notin MemoIds)
         => last.status = 404
    /\ last.status = 403 => last.id \in MemoIds

\* C16, amended: a fetch of an id that is not in the store answers 404
\* whoever asks; an update or delete of such an id answers 404 to every
\* authenticated requester, HOST or not, and 401 to a request without a
\* principal, which is refused before the existence check; 403 is only
\* answered for a memo that exists, and an authenticated requester who is
\* neither owner nor HOST gets 403 for every existing memo.
C16_NotFoundBeforeForbidden ==
    /\ (last.op = "get" /\ last.id \notin MemoIds) => last.status = 404
    /\ (last.op \in {"update", "delete"} /\ last.id \notin MemoIds)
         => last.status = (IF last.user.auth THEN 404 ELSE 401)
    /\ last.status = 403 => last.id \in MemoIds
    /\ \A p \in Principals :
         /\ \A i \in AbsentIds :
              /\ GetOutcome(p, i).status = 404
              /\ DeleteOutcome(p, i).status = (IF p.auth THEN 404 ELSE 401)
              /\ \A b \in UpdateBodies :
                   UpdateOutcome(p, i, b, TRUE).status = (IF p.auth THEN 404 ELSE 401)
         /\ \A i \in MemoIds :
              (p.auth /\ ~MayWrite(p, memo[i])) =>
                /\ DeleteOutcome(p, i).status = 403
                /\ \A b \in UpdateBodies : UpdateOutcome(p, i, b, TRUE).status = 403

C16_Witness ==
    /\ last.op = "update"
    /\ last.user = User("bob", "USER")
    /\ last.id \notin MemoIds
    /\ last.status = 404
    /\ \E i \in MemoIds : memo[i].creator_id = 1 /\ memo[i].visibility = "PRIVATE"

(* ---------------- tag synchronization on update ---------------- *)
\* C17: every update that passes the write guard and carries content calls
\* the tag synchronizer with the memo's id, the memo's owner id and the new
\* content, whoever the permitted requester is.
C17_UpdateResyncsTags ==
    (last.op = "update" /\ last.status = 200 /\ last.body.hasContent) =>
        /\ last.sync.called
        /\ last.sync.memoId = last.id
        /\ last.sync.userId = memo[last.id].creator_id
        /\ last.sync.content = last.body.content

(* ---------------- the handlers statement by statement ---------------- *)
\* a slot that holds no request in progress
Resting(s) == flight[s].pc \in {"idle", "done", "failed"}

\* the response of the request in slot s
Answer(s, status, views, sync) ==
    last' = Response(flight[s].op, flight[s].user, flight[s].id, flight[s].body,
                     NoFilter, status, views, sync)

\* the tag synchronizer call of the request in slot s
StepSync(s, tagOk) ==
    LET f == flight[s]
        userId == getUserIdFromUid(f.user.sub)
    IN  IF f.op = "create" \/ (f.body.hasContent /\ userId # Null)
        THEN [called |-> TRUE, memoId |-> f.id, userId |-> userId,
              content |-> f.body.content, ok |-> tagOk]
        ELSE NoSync

\* POST / up to its first write: the checks and the body defaults
BeginCreate(s, p, b, cap) ==
    LET o == CreateOutcome(p, b, TRUE)
        writing == { t \in Slots : flight[t].op = "create" /\ flight[t].pc = "row" }
    IN  /\ Resting(s)
        /\ IF o.status \in {401, 400, 404}
           THEN /\ last' = Response("create", p, 0, b, NoFilter, o.status, <<>>, NoSync)
                /\ UNCHANGED flight
           ELSE /\ Len(memo) + Cardinality(writing) < cap
                /\ flight' = [flight EXCEPT ![s] =
                      [ op |-> "create", user |-> p, id |-> 0, body |-> b, pc |-> "row",
                        given |-> TRUE, list |-> CreateFinalResourceIdList(b), k |-> 0 ]]
                /\ UNCHANGED last
        /\ UNCHANGED <<memo, memo_resource, memo_tag, clock>>

\* PATCH /:id up to its first write: the checks and finalResourceIdList
BeginUpdate(s, p, memoId, b) ==
    LET o == UpdateOutcome(p, memoId, b, TRUE)
        final == UpdateFinalResourceIdList(b)
    IN  /\ Resting(s)
        /\ IF o.status \in {401, 404, 403}
           THEN /\ last' = Response("update", p, memoId, b, NoFilter, o.status, <<>>, NoSync)
                /\ UNCHANGED flight
           ELSE /\ flight' = [flight EXCEPT ![s] =
                      [ op |-> "update", user |-> p, id |-> memoId, body |-> b,
                        pc |-> "row", given |-> final.given, list |-> final.list,
                        k |-> 0 ]]
                /\ UNCHANGED last
        /\ UNCHANGED <<memo, memo_resource, memo_tag, clock>>

\* INSERT INTO memo of a create, or the UPDATE memo of an update
RowStep(s) ==
    LET f == flight[s]
    IN  /\ f.pc = "row"
        /\ IF f.op = "create"
           THEN /\ memo' = Append(memo, NewMemoRow(uuidv4, getUserIdFromUid(f.user.sub),
                                                   f.body, clock))
                /\ flight' = [flight EXCEPT ![s].id = Len(memo) + 1,
                                            ![s].pc = IF Len(f.list) > 0 THEN "insert"
                                                      ELSE "tags"]
           ELSE /\ memo' = [memo EXCEPT ![f.id] = UpdateFields(@, f.body, clock)]
                /\ flight' = [flight EXCEPT ![s].pc = IF f.given THEN "delete" ELSE "tags"]
        /\ UNCHANGED <<memo_resource, memo_tag, clock, last>>

\* DELETE FROM memo_resource WHERE memo_id = ?
DeleteStep(s) ==
    LET f == flight[s]
    IN  /\ f.pc = "delete"
        /\ memo_resource' = SelectSeq(memo_resource, LAMBDA r : r.memo_id # f.id)
        /\ flight' = [flight EXCEPT ![s].pc = IF Len(f.list) > 0 THEN "insert" ELSE "tags"]
        /\ UNCHANGED <<memo, memo_tag, clock, last>>

\* mutant: the loop's inserts are one statement
InsertStep_Batch(s) ==
    LET f == flight[s]
    IN  /\ f.pc = "insert"
        /\ memo_resource' = InsertAssociations(memo_resource, f.id, f.list)
        /\ flight' = [flight EXCEPT ![s].k = f.k + 1,
                                    ![s].pc = IF f.k + 1 = Len(f.list) THEN "tags"
                                              ELSE "insert"]
        /\ UNCHANGED <<memo, memo_tag, clock, last>>

\* one INSERT INTO memo_resource of the loop over finalResourceIdList
InsertStep(s) ==
    LET f == flight[s]
    IN  /\ f.pc = "insert"
        /\ memo_resource' = InsertAssociations(memo_resource, f.id, << f.list[f.k + 1] >>)
        /\ flight' = [flight EXCEPT ![s].k = f.k + 1,
                                    ![s].pc = IF f.k + 1 = Len(f.list) THEN "tags"
                                              ELSE "insert"]
        /\ UNCHANGED <<memo, memo_tag, clock, last>>

\* the tag synchronizer inside its try / catch
TagStep(s, tagOk) ==
    LET f == flight[s]
        sync == StepSync(s, tagOk)
        try == IF sync.called
               THEN TryTagSync(memo_tag, f.id, sync.userId, f.body.content, tagOk)
               ELSE [thrown |-> FALSE, tags |-> memo_tag]
    IN  /\ f.pc = "tags"
        /\ memo_tag' = try.tags
        /\ IF try.thrown
           THEN /\ Answer(s, 500, <<>>, sync)
                /\ flight' = [flight EXCEPT ![s].pc = "failed"]
           ELSE /\ flight' = [flight EXCEPT ![s].pc = "view"]
                /\ UNCHANGED last
        /\ UNCHANGED <<memo, memo_resource, clock>>

\* getMemoWithDetails and the response
ViewStep(s) ==
    LET f == flight[s]
    IN  /\ f.pc = "view"
        /\ Answer(s, 200, getMemoWithDetails(memo, memo_resource, memo_tag, f.id),
                  StepSync(s, TRUE))
        /\ flight' = [flight EXCEPT ![s].pc = "done"]
        /\ UNCHANGED <<memo, memo_resource, memo_tag, clock>>

\* the statement the request is at throws: the outer catch answers 500 and
\* nothing that was written is undone
StoreFails(s) ==
    LET f == flight[s]
    IN  /\ f.pc \in {"row", "delete", "insert", "view"}
        /\ Answer(s, 500, <<>>, NoSync)
        /\ flight' = [flight EXCEPT ![s].pc = "failed"]
        /\ UNCHANGED <<memo, memo_resource, memo_tag, clock>>

(* ---------------- requests observed in progress ---------------- *)
StepCreateBodies ==
    { WithResources(WithContent(EmptyBody, "hi #world"),
                    << Res(<<"r", "/", "b">>), Res(<<"r", "/", "a">>) >>) }

StepUpdateBodies == { WithIdList(WithContent(EmptyBody, "hello"), <<7>>) }

NextStep ==
    \/ \E b \in StepCreateBodies : BeginCreate(1, Owner, b, MaxMemos)
    \/ \E i \in RequestIds, b \in StepUpdateBodies : BeginUpdate(1, Owner, i, b)
    \/ RowStep(1)
    \/ DeleteStep(1)
    \/ InsertStep(1)
    \/ TagStep(1, TRUE)
    \/ ViewStep(1)
    \/ StoreFails(1)
    \/ \E i \in RequestIds : Get(Owner, i)
    \/ List([NoFilter EXCEPT !.creatorId = 1])

SpecStep == Init /\ [][NextStep]_vars

\* the request in slot s has written its memo row and not answered yet
RowWritten(s) ==
    \/ flight[s].op = "create" /\ flight[s].pc \in {"insert", "tags", "view"}
    \/ flight[s].op = "update" /\ flight[s].pc \in {"delete", "insert", "tags", "view"}

\* the associations the request in slot s has inserted so far
InsertedSoFar(s) == SubSeq(flight[s].list, 1, flight[s].k)

C18_InProgress ==
    LET f == flight[1]
        mine == [NoFilter EXCEPT !.creatorId = 1]
    IN  /\ RowWritten(1) =>
               /\ f.id \in MemoIds
               /\ memo[f.id].content = f.body.content
               /\ GetOutcome(f.user, f.id).status = 200
        /\ ((f.op = "create" /\ RowWritten(1)) \/ (f.op = "update" /\ f.pc = "insert")) =>
               /\ RowIds(memo_resource, f.id) = InsertedSoFar(1)
               /\ GetOutcome(f.user, f.id).views[1].resourceIdList = InsertedSoFar(1)
               /\ \A s \in ListOrders(mine) :
                    \E k \in 1..Len(s) :
                      /\ s[k] = f.id
                      /\ ListOutcome(mine, s).views[k].resourceIdList = InsertedSoFar(1)
        /\ (f.op = "create" /\ f.pc = "failed" /\ f.id # 0) =>
               /\ f.id \in MemoIds
               /\ memo[f.id].content = f.body.content
               /\ RowIds(memo_resource, f.id) = InsertedSoFar(1)

C18_Step ==
    /\ (flight'[1].pc = "failed" /\ flight[1].pc # "failed") =>
         /\ last'.op = flight[1].op /\ last'.status = 500 /\ last'.views = <<>>
         /\ <<memo', memo_resource', memo_tag'>> = <<memo, memo_resource, memo_tag>>
         /\ (RowWritten(1) => flight'[1].id \in 1..Len(memo'))
    /\ (last' # last /\ last'.op = "get") =>
         /\ last'.status = GetOutcome(last'.user, last'.id).status
         /\ last'.views = GetOutcome(last'.user, last'.id).views

\* C18: create and update run statement by statement against the store: a
\* fetch or list that runs after the row write and before the last insert
\* of a create returns the memo with only the associations inserted so far,
\* one that runs between the delete and the last insert of an update
\* returns the memo without the associations not yet re-inserted, and a
\* statement that fails after the row write answers 500 and leaves the row
\* and everything written so far in the store.
C18_NotAtomic == []C18_InProgress /\ [][C18_Step]_vars

C18_Witness ==
    /\ flight[1].op = "create"
    /\ flight[1].pc = "insert"
    /\ flight[1].list = <<8, 7>>
    /\ flight[1].k = 1
    /\ last.op = "get"
    /\ last.id = flight[1].id
    /\ last.status = 200
    /\ last.views[1].resourceIdList = <<8>>

(* ---------------- two updates of one memo at the same time ---------------- *)
RaceCreateBodies == { WithIdList(WithContent(EmptyBody, "hello"), <<7>>) }

\* the explicit resource list of the update in each slot
RaceBody(s) == IF s = 1 THEN WithIdList(EmptyBody, <<7>>) ELSE WithIdList(EmptyBody, <<8>>)

RaceCaller(s) == IF s = 1 THEN Owner ELSE Host

NextRace ==
    \/ \E b \in RaceCreateBodies : Create(Owner, b, TRUE, MaxMemos)
    \/ \E s \in Slots, i \in RequestIds : BeginUpdate(s, RaceCaller(s), i, RaceBody(s))
    \/ \E s \in Slots : RowStep(s)
    \/ \E s \in Slots : DeleteStep(s)
    \/ \E s \in Slots : InsertStep(s)
    \/ \E s \in Slots : TagStep(s, TRUE)
    \/ \E s \in Slots : ViewStep(s)

SpecRace == Init /\ [][NextRace]_vars

\* C19: once two permitted updates of the same memo, each with an explicit
\* resource list, have both completed, the memo's associations are the list
\* of one of the two requests, however their statements were interleaved.
C19_LastWriterWins ==
    ( /\ \A s \in Slots : flight[s].op = "update" /\ flight[s].pc = "done" /\ flight[s].given
      /\ flight[1].id = flight[2].id )
        => \E s \in Slots : RowIds(memo_resource, flight[s].id) = flight[s].list

(* ---------------- idempotence of resource resolution ---------------- *)
\* the resource objects a memo view shows for a list of ids
NamesOf(ids) == [ k \in 1..Len(ids) |-> Res(ResourceName(ids[k])) ]

\* the final lists the probe bodies lead to
ProbeFinals == { UpdateFinalResourceIdList(b) : b \in ResProbeBodies }

\* C20: resolving a resources list again, or resolving the references its
\* resolved ids are shown under, gives the same id list; and sending a
\* permitted update a second time, right after it succeeded, leaves every
\* memo with the associations the first application left.
C20_ResolutionIdempotent ==
    /\ (last.op = "update" /\ last.status = 200) =>
         LET again == UpdateOutcome(last.user, last.id, last.body, TRUE)
         IN  /\ again.status = 200
             /\ \A j \in MemoIds :
                  RowIds(again.memo_resource, j) = RowIds(memo_resource, j)
             /\ again.views[1].resourceIdList = last.views[1].resourceIdList
    /\ \A b \in ResProbeBodies :
         LET ids == ResolveResources(b.resources)
         IN  /\ ResolveResources(NamesOf(ids)) = ids
             /\ Len(b.resources) > 0 => UpdateFinalResourceIdList(b).list = ids
    /\ \A final \in ProbeFinals, i \in MemoIds :
         LET once == ReplaceAssociations(memo_resource, i, final)
         IN  \A j \in MemoIds :
               RowIds(ReplaceAssociations(once, i, final), j) = RowIds(once, j)

C20_Witness ==
    /\ last.op = "update"
    /\ last.status = 200
    /\ last.body.resources = << Res(<<"r", "/", "b">>), Res(<<"x", "/", "r", "/", "a">>) >>
    /\ RowIds(memo_resource, last.id) = <<8, 7>>
    /\ Len(memo) = 2
    /\ RowIds(memo_resource, 3 - last.id) # <<>>

====
